---------------------------- MODULE Spec2Model ----------------------------
(***************************************************************************)
(* LiveShell audio configuration: the encoder (src/sample/encoder.py) and  *)
(* the blind decoder (src/sample/decoder.py).                              *)
(*                                                                         *)
(* Conventions.  A bit sequence is a TLA+ sequence of 0/1; positions are   *)
(* the 0-based positions of the Python lists, read with At(bits, i).  A    *)
(* byte string is a sequence of 0..255.  A text (Python str) is a sequence *)
(* of code points, so Len is Python's len().  None and the two outcomes    *)
(* that carry no text are one-element sequences of a negative number,     *)
(* which no byte string and no text is.                                    *)
(***************************************************************************)
EXTENDS Integers, Sequences, FiniteSets, TLC

None == <<-1>>

At(s, i) == s[i + 1]

Min(a, b) == IF a <= b THEN a ELSE b

RECURSIVE Pow2(_)
Pow2(k) == IF k = 0 THEN 1 ELSE 2 * Pow2(k - 1)

\* bit k (0 = least significant) of the non-negative integer x: (x >> k) & 1
Bit(x, k) == (x \div Pow2(k)) % 2

\* a ^ b on w-bit operands
RECURSIVE Xor(_, _, _)
Xor(a, b, w) ==
    IF w = 0 THEN 0
    ELSE (((a % 2) + (b % 2)) % 2) + 2 * Xor(a \div 2, b \div 2, w - 1)

\* s repeated n times (Python: list * n)
RECURSIVE Rep(_, _)
Rep(s, n) == IF n <= 0 THEN <<>> ELSE s \o Rep(s, n - 1)

Ones(n) == [k \in 1..n |-> 1]

Complement(bs) == [k \in 1..Len(bs) |-> 1 - bs[k]]

\* "v = e; ...v...": the value of e is computed once and then named
With(e, rest(_)) == CHOOSE r \in {rest(v) : v \in {e}} : TRUE

\* A sequential loop "for i in range(lo, hi): st = body(st, i)".  The range is
\* halved and the state after the first half is computed before the second
\* half starts, so a long loop needs only a shallow evaluation stack.
RECURSIVE ForRange(_, _, _, _)
ForRange(body(_, _), st, lo, hi) ==
    IF lo >= hi THEN st
    ELSE IF hi - lo = 1 THEN With(st, LAMBDA v : body(v, lo))
    ELSE With((lo + hi) \div 2, LAMBDA mid :
             With(ForRange(body, st, lo, mid), LAMBDA left :
                 ForRange(body, left, mid, hi)))

(***************************************************************************)
(* CRC-16, polynomial 0x1021 (decoder.py crc16_xmodem / crc16_ccitt_false, *)
(* encoder.py crc16_xmodem).                                               *)
(***************************************************************************)
POLY == 4129

INIT_XMODEM == 0

INIT_CCITT == 65535

\* a faulty variant: the polynomial is never folded in
CrcShiftBroken(crc, poly) == (crc * 2) % 65536

\* one pass of the inner "for _ in range(8)" body
CrcShift(crc, poly) ==
    IF Bit(crc, 15) = 1 THEN Xor((crc * 2) % 65536, poly, 16)
    ELSE (crc * 2) % 65536

\* the outer loop body: crc ^= (b << 8), then the eight passes
CrcByte(crc, b, poly) ==
    LET pass(c, n) == CrcShift(c, poly)
    IN  ForRange(pass, Xor(crc, b * 256, 16), 0, 8)

\* "for b in data"
CrcFrom(data, crc, poly) ==
    With(data, LAMBDA d :
        LET byte(c, k) == CrcByte(c, At(d, k), poly)
        IN  ForRange(byte, crc, 0, Len(d)))

crc16_xmodem(data, poly, init) == CrcFrom(data, init, poly) % 65536

\* a faulty variant: the second CRC starts from 0x0000 like the first
crc16_ccitt_false_noinit(data) == crc16_xmodem(data, POLY, INIT_XMODEM)

\* crc16_xmodem with init = 0xFFFF
crc16_ccitt_false(data) == crc16_xmodem(data, POLY, INIT_CCITT)

\* encoder.py's own copy: polynomial and initial value are literals there
enc_crc16_xmodem(data) == CrcFrom(data, 0, 4129)

(***************************************************************************)
(* UTF-8 (str.encode / bytes.decode with errors="replace").                *)
(***************************************************************************)
REPLACEMENT == 65533

Utf8Char(cp) ==
    IF cp < 128 THEN <<cp>>
    ELSE IF cp < 2048 THEN <<192 + (cp \div 64), 128 + (cp % 64)>>
    ELSE IF cp < 65536
         THEN <<224 + (cp \div 4096), 128 + ((cp \div 64) % 64), 128 + (cp % 64)>>
    ELSE <<240 + (cp \div 262144), 128 + ((cp \div 4096) % 64),
           128 + ((cp \div 64) % 64), 128 + (cp % 64)>>

RECURSIVE Utf8Encode(_)
Utf8Encode(text) ==
    With(text, LAMBDA t :
        IF t = <<>> THEN <<>> ELSE Utf8Char(Head(t)) \o Utf8Encode(Tail(t)))

IsCont(bs, k) == k <= Len(bs) /\ bs[k] >= 128 /\ bs[k] <= 191

InRange(bs, k, lo, hi) == k <= Len(bs) /\ bs[k] >= lo /\ bs[k] <= hi

\* the decoder's step at 1-based position k: <<code point, bytes consumed>>.
\* An ill-formed sequence yields U+FFFD for its maximal well-formed prefix.
Utf8Step(bs, k) ==
    LET b == bs[k] IN
    IF b < 128 THEN <<b, 1>>
    ELSE IF b >= 194 /\ b <= 223 THEN
        IF IsCont(bs, k + 1) THEN <<(b - 192) * 64 + (bs[k + 1] - 128), 2>>
        ELSE <<REPLACEMENT, 1>>
    ELSE IF b >= 224 /\ b <= 239 THEN
        LET lo == IF b = 224 THEN 160 ELSE 128
            hi == IF b = 237 THEN 159 ELSE 191
        IN  IF ~InRange(bs, k + 1, lo, hi) THEN <<REPLACEMENT, 1>>
            ELSE IF ~IsCont(bs, k + 2) THEN <<REPLACEMENT, 2>>
            ELSE <<(b - 224) * 4096 + (bs[k + 1] - 128) * 64 + (bs[k + 2] - 128), 3>>
    ELSE IF b >= 240 /\ b <= 244 THEN
        LET lo == IF b = 240 THEN 144 ELSE 128
            hi == IF b = 244 THEN 143 ELSE 191
        IN  IF ~InRange(bs, k + 1, lo, hi) THEN <<REPLACEMENT, 1>>
            ELSE IF ~IsCont(bs, k + 2) THEN <<REPLACEMENT, 2>>
            ELSE IF ~IsCont(bs, k + 3) THEN <<REPLACEMENT, 3>>
            ELSE <<(b - 240) * 262144 + (bs[k + 1] - 128) * 4096
                   + (bs[k + 2] - 128) * 64 + (bs[k + 3] - 128), 4>>
    ELSE <<REPLACEMENT, 1>>

RECURSIVE Utf8From(_, _)
Utf8From(bs, k) ==
    IF k > Len(bs) THEN <<>>
    ELSE With(Utf8Step(bs, k), LAMBDA st : <<st[1]>> \o Utf8From(bs, k + st[2]))

Utf8Decode(bs) == With(bs, LAMBDA b : Utf8From(b, 1))

(***************************************************************************)
(* Encoder (encoder.py).                                                   *)
(***************************************************************************)
BIT_SAMPLES == 32

PREAMBLE_ONES == 12

POSTAMBLE_ONES == 12

REPEAT == 3

\* the two 32-sample templates: a 4-sample period (bit 1), an 8-sample period (bit 0)
BIT1 == Rep(<<0, 3276, 0, -3276>>, 8)

BIT0 == Rep(<<0, 2317, 3276, 2317, 0, -2317, -3276, -2317>>, 4)

DEVICE_SAMPLE_RATE == [ls2 |-> 16000, pro |-> 44100, lsx |-> 48000]

\* data bits of byte b, most significant first: (b >> i) & 1 for i = 7..0
DataBits(b) == [k \in 1..8 |-> Bit(b, 8 - k)]

RECURSIVE uart_bits(_)
uart_bits(payload) ==
    With(payload, LAMBDA p :
        IF p = <<>> THEN <<>>
        ELSE (<<0>> \o DataBits(Head(p)) \o <<1>>) \o uart_bits(Tail(p)))

\* Python round() of the rational n/d (d > 0): to nearest, ties to even
Round(n, d) ==
    LET q == n \div d
        r == n % d
    IN  IF 2 * r < d THEN q
        ELSE IF 2 * r > d THEN q + 1
        ELSE IF q % 2 = 0 THEN q ELSE q + 1

Clip(sv) == IF sv > 32767 THEN 32767 ELSE IF sv < -32768 THEN -32768 ELSE sv

\* an amplitude scale is the rational amp.num / amp.den
AmpOk(amp) == 0 < amp.num /\ amp.num <= amp.den

scale(arr, amp) == [k \in 1..Len(arr) |-> Clip(Round(arr[k] * amp.num, amp.den))]

\* "for b in bits: tmpl = b1 if b else b0; for s in tmpl: out += ..." ; the
\* int16 samples (their little-endian byte pairs are read back unchanged)
bits_to_pcm(bits, amp) ==
    With(<<bits, scale(BIT0, amp), scale(BIT1, amp)>>, LAMBDA a :
        LET bs == a[1]
            b0 == a[2]
            b1 == a[3]
        IN  [k \in 1..(BIT_SAMPLES * Len(bs)) |->
                LET b == bs[((k - 1) \div BIT_SAMPLES) + 1]
                IN  (IF b # 0 THEN b1 ELSE b0)[((k - 1) % BIT_SAMPLES) + 1]])

\* main, lines 110-111
WithNewline(text) ==
    IF text # <<>> /\ text[Len(text)] = 10 THEN text ELSE Append(text, 10)

\* main, lines 113-115
EncPayload(text) ==
    With(Utf8Encode(text), LAMBDA body :
        With(enc_crc16_xmodem(body), LAMBDA crc :
            body \o <<(crc \div 256) % 256, crc % 256>>))

\* main, lines 117-119: one repetition
FrameBits(payload) ==
    With(Ones(PREAMBLE_ONES) \o uart_bits(payload) \o Ones(POSTAMBLE_ONES),
         LAMBDA bits : bits)

\* main, lines 110-120
StreamBits(text) ==
    With(FrameBits(EncPayload(WithNewline(text))), LAMBDA bits : Rep(bits, REPEAT))

(***************************************************************************)
(* Decoder, the pure stages (decoder.py).                                  *)
(***************************************************************************)
\* a faulty variant: the stop bit is not looked at
UartContNoStop(bits, out, i, max_bytes) ==
    /\ i + 10 <= Len(bits)
    /\ Len(out) < max_bytes
    /\ At(bits, i) = 0

\* the while-condition of bits_to_bytes_uart and the three breaks of its body
UartCont(bits, out, i, max_bytes) ==
    /\ i + 10 <= Len(bits)
    /\ Len(out) < max_bytes
    /\ At(bits, i) = 0
    /\ ~(i + 9 >= Len(bits))
    /\ At(bits, i + 9) = 1

\* val = (val << 1) | (b & 1) over bits[i+1 : i+9]
RECURSIVE UartVal(_, _, _, _)
UartVal(bits, i, k, val) ==
    IF k > 8 THEN val
    ELSE UartVal(bits, i, k + 1, 2 * val + (At(bits, i + k) % 2))

\* a faulty variant: the position stays where it is
UartAdvanceStuck(i) == i

\* where an iteration that appends leaves i
UartAdvance(i) == i + 10

\* the while loop from the state (out, i); each pass is computed before the
\* next starts
RECURSIVE UartLoop(_, _, _, _)
UartLoop(bits, out, i, max_bytes) ==
    IF UartCont(bits, out, i, max_bytes)
    THEN CHOOSE r \in {UartLoop(bits, o, p, max_bytes) :
                          o \in {Append(out, UartVal(bits, i, 1, 0))},
                          p \in {UartAdvance(i)}} : TRUE
    ELSE <<out, i>>

bits_to_bytes_uart(bits, start_pos, max_bytes) == UartLoop(bits, <<>>, start_pos, max_bytes)

RECURSIVE RevBits(_, _, _)
RevBits(x, r, n) == IF n = 0 THEN r ELSE RevBits(x \div 2, 2 * r + (x % 2), n - 1)

reverse_bits_in_byte(b) == RevBits(b, 0, 8)

\* the body of "for cand in candidates": does one of the two CRCs match?
CandValid(cand) ==
    /\ ~(Len(cand) < 3)
    /\ LET body == SubSeq(cand, 1, Len(cand) - 2)
           want == cand[Len(cand) - 1] * 256 + cand[Len(cand)]
       IN  \/ crc16_xmodem(body, POLY, INIT_XMODEM) = want
           \/ crc16_ccitt_false(body) = want

try_bit_order_and_crc(payload) ==
    IF Len(payload) < 3 THEN None
    ELSE With(<<payload, [k \in 1..Len(payload) |-> reverse_bits_in_byte(payload[k])]>>,
              LAMBDA cands :
                  IF CandValid(cands[1]) THEN SubSeq(cands[1], 1, Len(cands[1]) - 2)
                  ELSE IF CandValid(cands[2]) THEN SubSeq(cands[2], 1, Len(cands[2]) - 2)
                  ELSE None)

PREAMBLE_MIN == 8

DEDUP_GAP == 50

\* one iteration of the first loop of find_frames; st = [run, starts]
FrameScanStep(bits, st, i) ==
    IF At(bits, i) = 1 THEN [run |-> st.run + 1, starts |-> st.starts]
    ELSE [run |-> 0,
          starts |-> IF st.run >= PREAMBLE_MIN THEN Append(st.starts, i) ELSE st.starts]

\* "for i in range(n)" from the state before the loop
FrameScan(bits) ==
    With(bits, LAMBDA bs :
        LET body(st, i) == FrameScanStep(bs, st, i)
        IN  ForRange(body, [run |-> 0, starts |-> <<>>], 0, Len(bs)).starts)

\* two other readings: a gap of exactly 50 kept; no deduplication
FarEnoughGe(s, last) == s - last >= DEDUP_GAP

FarEnoughAny(s, last) == s - last > 0

\* "if s - last > 50"
FarEnough(s, last) == s - last > DEDUP_GAP

\* one iteration of the second loop; st = [last, dedup]
FrameDedupStep(starts, st, k) ==
    IF FarEnough(At(starts, k), st.last)
    THEN [last |-> At(starts, k), dedup |-> Append(st.dedup, At(starts, k))]
    ELSE st

\* "for s in starts", last = -10**9 before the loop
FrameDedup(starts) ==
    With(starts, LAMBDA ss :
        LET body(st, k) == FrameDedupStep(ss, st, k)
        IN  ForRange(body, [last |-> -1000000000, dedup |-> <<>>], 0, Len(ss)).dedup)

find_frames(bits) == FrameDedup(FrameScan(bits))

(***************************************************************************)
(* Decoder, segmenting and classifying (decode_config_string lines 207-222,*)
(* normalize_blocks, kmeans2).                                             *)
(*                                                                         *)
(* A normalized block (x - mean) / (|x - mean| + 1e-12) is represented by  *)
(* the primitive integer vector of its direction: 32 * x - sum(x) divided  *)
(* by the gcd of its entries (the zero vector for a flat block).  Two      *)
(* blocks have the same representative exactly when their normalized       *)
(* blocks are equal.                                                       *)
(***************************************************************************)
MIN_BLOCKS == 200

KMEANS_ITERS == 40

Abs(v) == IF v < 0 THEN -v ELSE v

RECURSIVE Gcd(_, _)
Gcd(a, b) == IF b = 0 THEN a ELSE With(a % b, LAMBDA r : Gcd(b, r))

\* block j (0-based) of the buffer: pcm[j * 32 : (j + 1) * 32]
BlockOf(pcm, j) == SubSeq(pcm, j * BIT_SAMPLES + 1, (j + 1) * BIT_SAMPLES)

NormBlock(blk) ==
    With(blk, LAMBDA b :
        LET add(acc, k) == acc + At(b, k)
        IN  With(ForRange(add, 0, 0, Len(b)), LAMBDA total :
                With([k \in 1..Len(b) |-> Len(b) * b[k] - total], LAMBDA cen :
                    LET gcd(acc, k) == Gcd(acc, Abs(At(cen, k)))
                    IN  With(ForRange(gcd, 0, 0, Len(cen)), LAMBDA g :
                            IF g = 0 THEN cen
                            ELSE [k \in 1..Len(cen) |-> cen[k] \div g]))))

\* n_blocks and the rows of blocks_n (lines 210, 214-215)
NBlocks(pcm) == Len(pcm) \div BIT_SAMPLES

normalize_blocks(pcm) == [j \in 1..NBlocks(pcm) |-> NormBlock(BlockOf(pcm, j - 1))]

(***************************************************************************)
(* kmeans2 on a buffer whose normalized blocks take at most two values (a  *)
(* buffer made of two waveforms).  A centroid is then the mean of all the  *)
(* blocks whose value lies in a set S of values, and is represented by S.  *)
(* The squared distance of a block of value v to the centroid S is 0 when  *)
(* S = {v}, is the full distance D between the two values when v is not in *)
(* S, and is a proper fraction of D (the squared share of the other value) *)
(* when S holds both: the ranks 0 < 1 < 2 order these distances.           *)
(***************************************************************************)
Values(x) == {x[k] : k \in 1..Len(x)}

Count(x, v) == Cardinality({k \in 1..Len(x) : x[k] = v})

Rank(v, S) == IF S = {v} THEN 0 ELSE IF v \in S THEN 1 ELSE 2

\* labels = (d1 < d0), per block value
LabelOf(v, c) == IF Rank(v, c[2]) < Rank(v, c[1]) THEN 1 ELSE 0

\* the update step: the mean of each cluster's members, unchanged when it has none
NewCentroids(vals, c) ==
    [k \in 1..2 |->
        LET m == {v \in vals : LabelOf(v, c) = k - 1}
        IN  IF m # {} THEN m ELSE c[k]]

\* rng.choice(n, size=2, replace=False): two distinct blocks, by their values
InitCentroids(x) ==
    {<<{v0}, {v1}>> : v0 \in Values(x), v1 \in Values(x)} \cap
    {c \in [1..2 -> SUBSET Values(x)] :
        \A v \in Values(x) : (c[1] = {v} /\ c[2] = {v}) => Count(x, v) >= 2}

\* labels.tolist() for the final centroids
Labels(x, c) == [k \in 1..Len(x) |-> LabelOf(x[k], c)]

(***************************************************************************)
(* Decoder, the orchestrator (decode_config_string lines 224-268).         *)
(***************************************************************************)
MAX_CANDIDATES == 50

MAX_BYTES == 10000

MIN_PAYLOAD == 10

NoValidFrame == <<-2>>

InsufficientData == <<-3>>

\* bits = [(1 - b) if flip else b for b in raw_bits]
Polarity(raw, flp) == IF flp THEN Complement(raw) ELSE raw

\* text.replace("\r\n", "\n")
RECURSIVE ReplaceCrLf(_)
ReplaceCrLf(text) ==
    With(text, LAMBDA t :
        IF t = <<>> THEN <<>>
        ELSE IF Len(t) >= 2 /\ t[1] = 13 /\ t[2] = 10
             THEN <<10>> \o ReplaceCrLf(SubSeq(t, 3, Len(t)))
             ELSE <<t[1]>> \o ReplaceCrLf(Tail(t)))

\* text.strip("\x00")
StripNul(text) ==
    With(text, LAMBDA t :
        With({k \in 1..Len(t) : t[k] # 0}, LAMBDA keep :
            IF keep = {} THEN <<>>
            ELSE SubSeq(t, CHOOSE k \in keep : \A m \in keep : k <= m,
                           CHOOSE k \in keep : \A m \in keep : k >= m)))

\* lines 243-249
TextOf(body) == StripNul(ReplaceCrLf(Utf8Decode(body)))

\* "if len(payload) < 10: continue"
TooShort(payload) == Len(payload) < MIN_PAYLOAD

\* the text a parsed frame yields, None when the candidate is passed over
\* (lines 234-249)
FrameText(payload) ==
    IF TooShort(payload) THEN None
    ELSE With(try_bit_order_and_crc(payload), LAMBDA body :
             IF body = None THEN None ELSE TextOf(body))

\* a faulty variant: a later text of the same length replaces the kept one
LongerOrEqual(text, best_len) == Len(text) >= best_len

\* "if len(text) > best_len"
Longer(text, best_len) == Len(text) > best_len

\* lines 251-253 on best = [text, len]
Keep(best, text) ==
    With(text, LAMBDA t :
        IF t # None /\ Longer(t, best.len)
        THEN [text |-> t, len |-> Len(t)]
        ELSE best)

NoBest == [text |-> None, len |-> -1]

\* starts[:50]
Capped(starts) == SubSeq(starts, 1, Min(MAX_CANDIDATES, Len(starts)))

\* the body of "for s in starts[:50]"
CandidateStep(bits, best, s) ==
    Keep(best, FrameText(bits_to_bytes_uart(bits, s, MAX_BYTES)[1]))

decode_with_polarity(raw, flp) ==
    LET bits == Polarity(raw, flp)
        cands == Capped(find_frames(bits))
        body(best, k) == CandidateStep(bits, best, At(cands, k))
    IN  ForRange(body, NoBest, 0, Len(cands)).text

\* a faulty variant: the non-flipped text wins whatever the lengths
SelectFirst(t0, t1) ==
    IF t0 = None /\ t1 = None THEN NoValidFrame
    ELSE IF t0 = None THEN t1
    ELSE t0

\* lines 261-268
Select(t0, t1) ==
    IF t0 = None /\ t1 = None THEN NoValidFrame
    ELSE IF t0 = None THEN t1
    ELSE IF t1 = None THEN t0
    ELSE IF Len(t0) >= Len(t1) THEN t0 ELSE t1

\* lines 224-268 from the raw bit sequence
DecodeBits(raw) == Select(decode_with_polarity(raw, FALSE), decode_with_polarity(raw, TRUE))

VARIABLES
    pc,        \* where the run is
    tag,       \* which family of inputs the run was started on
    text,      \* encoder: the text read from config_txt
    cfg,       \* encoder: [device, sample_rate, amp] from the command line
    rate,      \* the WAV header's sample rate
    pcm,       \* the WAV's samples
    x,         \* decoder: blocks_n, the normalized blocks
    c,         \* kmeans2: the two centroids
    iter,      \* kmeans2: passes of the loop made so far
    raw_bits,  \* decoder: the labels, polarity unknown
    flip,      \* decode_with_polarity: its argument
    bits,      \* the bit sequence being searched or parsed
    starts,    \* find_frames' result
    idx,       \* candidates of starts[:50] handled so far
    out,       \* bits_to_bytes_uart: the bytes parsed so far
    i,         \* bits_to_bytes_uart: the position reached
    cap,       \* bits_to_bytes_uart: max_bytes
    best,      \* decode_with_polarity: [text |-> best_text, len |-> best_len]
    t0, t1,    \* the two polarities' results
    result,    \* what the operation returned or raised
    seen,      \* history: the candidates handled, with their parsed frames
    body,      \* resolver check: the bytes a trailer is computed over
    payload    \* resolver check: the bytes handed to try_bit_order_and_crc

vars == <<pc, tag, text, cfg, rate, pcm, x, c, iter, raw_bits, flip, bits, starts,
          idx, out, i, cap, best, t0, t1, result, seen, body, payload>>

(***************************************************************************)
(* The inputs.                                                             *)
(***************************************************************************)
MaxTextLen == 9

MaxUnits == 2

NoiseReps == 52

MinTextLen == MaxTextLen - 4

Hello == <<104, 101, 108, 108, 111, 10>>

\* texts are the prefixes of these, a newline missing from most of them:
\* plain ASCII; two texts led by a NUL; a DEL as sixth byte; two- and three-byte
\* characters around a DEL as third byte
BaseTexts ==
    { <<104, 101, 108, 108, 111, 49, 50, 51, 52, 53>>,
      <<0, 64, 52, 94, 42, 114, 46, 70, 10, 65>>,
      <<0, 46, 86, 52, 104, 40, 80, 68, 10, 65>>,
      <<97, 98, 99, 100, 101, 127, 103, 104, 105, 106>>,
      <<233, 127, 8364, 108, 111, 49, 50, 51, 52, 53>> }

Texts ==
    {SubSeq(b, 1, n) : b \in BaseTexts, n \in {0} \cup (MinTextLen..MaxTextLen)}

Amp(n, d) == [num |-> n, den |-> d]

Configs ==
    { [device |-> "ls2", sample_rate |-> 0, amp |-> Amp(1, 1)],
      [device |-> "pro", sample_rate |-> 0, amp |-> Amp(1, 2)],
      [device |-> "lsx", sample_rate |-> 22050, amp |-> Amp(1, 10000)] }

\* a frame as main lays it out, around any byte string
Framed(bytes) == FrameBits(bytes \o <<(enc_crc16_xmodem(bytes) \div 256) % 256,
                                      enc_crc16_xmodem(bytes) % 256>>)

\* the same with a trailer that is no checksum of the bytes
BadCrc(bytes) == FrameBits(bytes \o <<(enc_crc16_xmodem(bytes) \div 256) % 256,
                                      (enc_crc16_xmodem(bytes) + 1) % 256>>)

\* the same with the stop bit of the fourth byte cleared
BadStop(bytes) == [Framed(bytes) EXCEPT ![PREAMBLE_ONES + 40] = 0]

CfgA == <<99, 102, 103, 61, 49, 50, 51, 10>>

CfgB == <<99, 102, 103, 61, 52, 53, 54, 10>>

CfgC == <<99, 102, 103, 61, 55, 56, 57, 48, 10>>

\* the stretches a recording other than the encoder's is made of
Units ==
    { Framed(CfgA), Framed(CfgB), Framed(CfgC), Complement(Framed(CfgB)),
      Framed(Hello), BadCrc(CfgA), BadStop(CfgB) }

RECURSIVE Concat(_)
Concat(ss) == IF ss = <<>> THEN <<>> ELSE Head(ss) \o Concat(Tail(ss))

Recordings == {Concat(us) : us \in UNION {[1..n -> Units] : n \in 1..MaxUnits}}

\* no frame at all: a 0 after every 50 ones
Noise == {Rep(Ones(DEDUP_GAP) \o <<0>>, NoiseReps)}

(***************************************************************************)
(* Encoding, then decoding, a WAV file.                                    *)
(***************************************************************************)
IdleClassifier == x = <<>> /\ c = <<>> /\ iter = 0 /\ raw_bits = <<>> /\ flip = FALSE

IdleSearch ==
    /\ idx = 0 /\ best = NoBest /\ t0 = None /\ t1 = None /\ result = None
    /\ seen = <<>>

IdleParser == out = <<>> /\ i = 0 /\ cap = MAX_BYTES

IdleResolver == body = <<>> /\ payload = <<>>

\* no command line: the recording comes from elsewhere
NoConfig == [device |-> "none", sample_rate |-> 0, amp |-> Amp(0, 1)]

NoWav == text = <<>> /\ cfg = NoConfig /\ rate = 0 /\ pcm = <<>>

Idle ==
    /\ IdleClassifier /\ IdleSearch /\ IdleParser /\ IdleResolver
    /\ bits = <<>> /\ starts = <<>>

InitEncoder ==
    /\ pc = "encode" /\ tag = "encoder"
    /\ text \in Texts
    /\ cfg \in Configs
    /\ rate = 0 /\ pcm = <<>>
    /\ Idle

\* a WAV made of the two waveforms in some other order
InitWav ==
    /\ pc = "wav"
    /\ \/ tag = "frames" /\ \E r \in Recordings : pcm = bits_to_pcm(r, Amp(1, 1))
       \/ tag = "noise" /\ \E r \in Noise : pcm = bits_to_pcm(r, Amp(1, 1))
    /\ text = <<>> /\ cfg = NoConfig /\ rate = 44100
    /\ Idle

Init == InitEncoder \/ InitWav

\* encoder.py main, lines 107-128 (bits_to_pcm accepts every amp of Configs)
Encode ==
    /\ pc = "encode"
    /\ AmpOk(cfg.amp)
    /\ rate' = IF cfg.sample_rate > 0 THEN cfg.sample_rate
               ELSE DEVICE_SAMPLE_RATE[cfg.device]
    /\ pcm' = bits_to_pcm(StreamBits(text), cfg.amp)
    /\ pc' = "wav"
    /\ UNCHANGED <<tag, text, cfg, x, c, iter, raw_bits, flip, bits, starts, idx,
                   out, i, cap, best, t0, t1, result, seen, body, payload>>

\* decode_config_string lines 207-215 and kmeans2 lines 61-65; the buffer is
\* not read again once the blocks are cut
Segment ==
    /\ pc = "wav"
    /\ IF NBlocks(pcm) < MIN_BLOCKS
       THEN /\ result' = InsufficientData
            /\ pc' = "done"
            /\ UNCHANGED <<x, c, pcm>>
       ELSE /\ x' = normalize_blocks(pcm)
            /\ c' \in InitCentroids(x')
            /\ pcm' = <<>>
            /\ pc' = "kmeans"
            /\ UNCHANGED result
    /\ UNCHANGED <<tag, text, cfg, rate, iter, raw_bits, flip, bits, starts, idx,
                   out, i, cap, best, t0, t1, seen, body, payload>>

\* one pass of "for _ in range(iters)", lines 67-83
KmeansIter ==
    /\ pc = "kmeans"
    /\ iter < KMEANS_ITERS
    /\ c' = NewCentroids(Values(x), c)
    /\ iter' = iter + 1
    /\ pc' = IF c' = c \/ iter' = KMEANS_ITERS THEN "labels" ELSE "kmeans"
    /\ UNCHANGED <<tag, text, cfg, rate, pcm, x, raw_bits, flip, bits, starts, idx,
                   out, i, cap, best, t0, t1, result, seen, body, payload>>

\* kmeans2 lines 85-90 and line 222; kmeans2's locals end with the call and
\* neither the blocks nor the centroids are read again
Classify ==
    /\ pc = "labels"
    /\ raw_bits' = Labels(x, c)
    /\ x' = <<>> /\ c' = <<>> /\ iter' = 0
    /\ flip' = FALSE
    /\ pc' = "polarity"
    /\ UNCHANGED <<tag, text, cfg, rate, pcm, bits, starts, idx,
                   out, i, cap, best, t0, t1, result, seen, body, payload>>

\* decode_with_polarity lines 225-230
StartPolarity ==
    /\ pc = "polarity"
    /\ bits' = Polarity(raw_bits, flip)
    /\ starts' = find_frames(bits')
    /\ best' = NoBest
    /\ idx' = 0
    /\ pc' = "cand"
    /\ UNCHANGED <<tag, text, cfg, rate, pcm, x, c, iter, raw_bits, flip,
                   out, i, cap, t0, t1, result, seen, body, payload>>

\* "for s in starts[:50]" takes the next candidate; line 233 enters the parser
BeginCandidate ==
    /\ pc = "cand"
    /\ idx < Len(Capped(starts))
    /\ out' = <<>>
    /\ i' = At(starts, idx)
    /\ cap' = MAX_BYTES
    /\ pc' = "parse"
    /\ UNCHANGED <<tag, text, cfg, rate, pcm, x, c, iter, raw_bits, flip, bits,
                   starts, idx, best, t0, t1, result, seen, body, payload>>

\* one pass of the while loop of bits_to_bytes_uart that appends a byte
ParseByte ==
    /\ pc = "parse"
    /\ UartCont(bits, out, i, cap)
    /\ out' = Append(out, UartVal(bits, i, 1, 0))
    /\ i' = UartAdvance(i)
    /\ UNCHANGED <<pc, tag, text, cfg, rate, pcm, x, c, iter, raw_bits, flip, bits,
                   starts, idx, cap, best, t0, t1, result, seen, body, payload>>

\* the loop ends; lines 234-253 settle the candidate
Resolve ==
    /\ pc = "parse"
    /\ ~UartCont(bits, out, i, cap)
    /\ best' = Keep(best, FrameText(out))
    /\ seen' = Append(seen, [flip |-> flip, s |-> At(starts, idx), payload |-> out,
                             text |-> FrameText(out)])
    /\ idx' = idx + 1
    /\ pc' = "cand"
    /\ UNCHANGED <<tag, text, cfg, rate, pcm, x, c, iter, raw_bits, flip, bits,
                   starts, out, i, cap, t0, t1, result, body, payload>>

\* the for loop is exhausted: line 255 returns best_text, to line 258 or 259
EndPolarity ==
    /\ pc = "cand"
    /\ ~(idx < Len(Capped(starts)))
    /\ IF ~flip
       THEN t0' = best.text /\ flip' = TRUE /\ pc' = "polarity" /\ UNCHANGED t1
       ELSE t1' = best.text /\ pc' = "select" /\ UNCHANGED <<t0, flip>>
    /\ UNCHANGED <<tag, text, cfg, rate, pcm, x, c, iter, raw_bits, bits, starts,
                   idx, out, i, cap, best, result, seen, body, payload>>

\* lines 261-268
Finish ==
    /\ pc = "select"
    /\ result' = Select(t0, t1)
    /\ pc' = "done"
    /\ UNCHANGED <<tag, text, cfg, rate, pcm, x, c, iter, raw_bits, flip, bits,
                   starts, idx, out, i, cap, best, t0, t1, seen, body, payload>>

Next ==
    \/ Encode
    \/ Segment
    \/ KmeansIter
    \/ Classify
    \/ StartPolarity
    \/ BeginCandidate
    \/ ParseByte
    \/ Resolve
    \/ EndPolarity
    \/ Finish

Spec == Init /\ [][Next]_vars

\* The decoder from the normalized blocks on, for any order of the two
\* waveforms: streams of the encoder and the candidate-ridden noise.
SearchInputs == {StreamBits(t) : t \in Texts \ {<<>>}} \cup Noise

InitSearch ==
    /\ pc = "kmeans" /\ tag = "blocks"
    /\ NoWav
    /\ \E r \in SearchInputs : x = normalize_blocks(bits_to_pcm(r, Amp(1, 1)))
    /\ c \in InitCentroids(x)
    /\ iter = 0 /\ raw_bits = <<>> /\ flip = FALSE
    /\ IdleSearch /\ IdleParser /\ IdleResolver
    /\ bits = <<>> /\ starts = <<>>

NextSearch ==
    \/ KmeansIter
    \/ Classify
    \/ StartPolarity
    \/ BeginCandidate
    \/ ParseByte
    \/ Resolve
    \/ EndPolarity
    \/ Finish

\* the interpreter runs the program to its end: a step that can be taken is taken
FairSearch == InitSearch /\ [][NextSearch]_vars /\ WF_vars(NextSearch)

(***************************************************************************)
(* The frame locator on its own: find_frames applied to bit sequences made *)
(* of runs of ones, each ended by a 0.                                     *)
(***************************************************************************)
MaxRuns == 3

RunLengths == {0, PREAMBLE_MIN - 1, PREAMBLE_MIN, DEDUP_GAP - 2, DEDUP_GAP - 1, DEDUP_GAP}

RunInputs ==
    {Concat([k \in 1..Len(rs) |-> Ones(rs[k]) \o <<0>>]) :
        rs \in UNION {[1..n -> RunLengths] : n \in 1..MaxRuns}}

InitFrames ==
    /\ pc = "scan" /\ tag = "runs"
    /\ bits \in RunInputs
    /\ starts = <<>>
    /\ NoWav /\ IdleClassifier /\ IdleSearch /\ IdleParser /\ IdleResolver

FindFrames ==
    /\ pc = "scan"
    /\ starts' = find_frames(bits)
    /\ pc' = "framed"
    /\ UNCHANGED <<tag, text, cfg, rate, pcm, x, c, iter, raw_bits, flip, bits, idx,
                   out, i, cap, best, t0, t1, result, seen, body, payload>>

SpecFrames == InitFrames /\ [][FindFrames]_vars

(***************************************************************************)
(* The UART parser on its own: bits_to_bytes_uart applied to bit sequences *)
(* made of 10-bit groups, well framed or not, cut short or not.            *)
(***************************************************************************)
MaxGroups == 3

\* 0xA5 and 0x01 well framed; a group whose start bit is 1; one whose stop bit is 0
Groups ==
    { <<0>> \o DataBits(165) \o <<1>>, <<0>> \o DataBits(1) \o <<1>>,
      <<1>> \o DataBits(165) \o <<1>>, <<0>> \o DataBits(254) \o <<0>> }

UartInputs ==
    {SubSeq(Concat(gs), 1, Len(Concat(gs)) - cut) :
        gs \in UNION {[1..n -> Groups] : n \in 1..MaxGroups}, cut \in {0, 1, 9}}

InitUart ==
    /\ pc = "uart" /\ tag = "groups"
    /\ bits \in UartInputs
    /\ \E s \in {0, 10, 11} : starts = <<s>> /\ i = s
    /\ cap \in {0, 1, 2, MAX_BYTES}
    /\ out = <<>>
    /\ NoWav /\ IdleClassifier /\ IdleSearch /\ IdleResolver

\* payload, endpos = bits_to_bytes_uart(bits, start_pos, max_bytes)
UartParse ==
    /\ pc = "uart"
    /\ out' = bits_to_bytes_uart(bits, i, cap)[1]
    /\ i' = bits_to_bytes_uart(bits, i, cap)[2]
    /\ pc' = "parsed"
    /\ UNCHANGED <<tag, text, cfg, rate, pcm, x, c, iter, raw_bits, flip, bits, starts,
                   idx, cap, best, t0, t1, result, seen, body, payload>>

SpecUart == InitUart /\ [][UartParse]_vars

(***************************************************************************)
(* The resolver on its own: try_bit_order_and_crc applied to a body with   *)
(* its trailer, to the same after one bit of the body flipped on the way,  *)
(* and to inputs too short to hold a trailer.                              *)
(***************************************************************************)
MaxBodyLen == 3

CrcBytes == {0, 49, 255}

Bodies == UNION {[1..n -> CrcBytes] : n \in 1..MaxBodyLen}

Trailer(crc) == <<(crc \div 256) % 256, crc % 256>>

\* bit p of a byte string, counted from the first byte's most significant bit
FlipBitAt(bytes, p) ==
    [bytes EXCEPT ![(p \div 8) + 1] = Xor(@, Pow2(7 - (p % 8)), 8)]

InitCrc ==
    /\ pc = "trailer" /\ tag = "body"
    /\ body \in Bodies
    /\ payload = <<>>
    /\ bits = <<>> /\ starts = <<>>
    /\ NoWav /\ IdleClassifier /\ IdleSearch /\ IdleParser

\* the sender appends the big-endian CRC, initial value 0x0000 or 0xFFFF
Seal ==
    /\ pc = "trailer"
    /\ \/ /\ payload' = body \o Trailer(crc16_xmodem(body, POLY, INIT_XMODEM))
          /\ tag' = "xmodem"
       \/ /\ payload' = body \o Trailer(crc16_xmodem(body, POLY, INIT_CCITT))
          /\ tag' = "ccitt"
    /\ pc' = "sealed"
    /\ UNCHANGED <<text, cfg, rate, pcm, x, c, iter, raw_bits, flip, bits, starts,
                   idx, out, i, cap, best, t0, t1, result, seen, body>>

\* an input of fewer than three bytes
Truncate ==
    /\ pc = "trailer"
    /\ \E n \in 0..2 : n <= Len(body) /\ payload' = SubSeq(body, 1, n)
    /\ tag' = "short"
    /\ pc' = "sealed"
    /\ UNCHANGED <<text, cfg, rate, pcm, x, c, iter, raw_bits, flip, bits, starts,
                   idx, out, i, cap, best, t0, t1, result, seen, body>>

\* one bit of the body, none of the trailer, is flipped
FlipBit ==
    /\ pc = "sealed"
    /\ tag \in {"xmodem", "ccitt"}
    /\ \E p \in 0..(8 * Len(body) - 1) : payload' = FlipBitAt(payload, p)
    /\ tag' = IF tag = "xmodem" THEN "xmodem flipped" ELSE "ccitt flipped"
    /\ UNCHANGED <<pc, text, cfg, rate, pcm, x, c, iter, raw_bits, flip, bits, starts,
                   idx, out, i, cap, best, t0, t1, result, seen, body>>

ResolveTrailer ==
    /\ pc = "sealed"
    /\ result' = try_bit_order_and_crc(payload)
    /\ pc' = "resolved"
    /\ UNCHANGED <<tag, text, cfg, rate, pcm, x, c, iter, raw_bits, flip, bits, starts,
                   idx, out, i, cap, best, t0, t1, seen, body, payload>>

SpecCrc == InitCrc /\ [][Seal \/ Truncate \/ FlipBit \/ ResolveTrailer]_vars

(***************************************************************************)
(* The properties.                                                         *)
(***************************************************************************)
Done == pc = "done"

Decoded == Done /\ result # InsufficientData

\* the frames of the candidates settled so far that the resolver validates
Validated == {k \in 1..Len(seen) : try_bit_order_and_crc(seen[k].payload) # None}

\* the candidates of one polarity that yielded a text
Texted(f) == {k \in 1..Len(seen) : seen[k].flip = f /\ seen[k].text # None}

\* C1 (as claimed, on its own instance): the text "hello" with the newline
\* appended, encoded at amplitude 1.0 for the 16000 Hz device, is decoded to
\* "hello\n".
C1_RoundTripHello ==
    (/\ Done /\ tag = "encoder"
     /\ WithNewline(text) = Hello
     /\ cfg.device = "ls2" /\ cfg.amp = Amp(1, 1))
    => result = Hello

\* C2 (as claimed): decoding ends in NoValidFrame exactly when no candidate
\* handled under either polarity has a parsed frame the resolver validates;
\* one validated frame is enough for a text to be returned.
C2_ValidatedFrameDecodes ==
    Decoded => (result = NoValidFrame <=> Validated = {})

\* C3 (as claimed): the orchestrator run on the complement of the raw bit
\* sequence of an encoded stream returns what the run on the sequence returned.
C3_PolarityInvariance ==
    (Decoded /\ tag = "encoder") => DecodeBits(Complement(raw_bits)) = result

\* C3 (amended): the run on the complement returns what the run on the
\* sequence returned, except when both polarities yielded texts of the same
\* length: each run then returns the text of its own non-flipped polarity, so
\* the run on the complement returns the other polarity's text.
C3_PolarityInvarianceAmended ==
    Decoded =>
        LET other == DecodeBits(Complement(raw_bits))
        IN  IF t0 # None /\ t1 # None /\ Len(t0) = Len(t1)
            THEN result = t0 /\ other = t1
            ELSE other = result

\* both polarities of an encoded stream yield a text, of different lengths
C3_Witness ==
    /\ Done /\ tag = "encoder"
    /\ t0 # None /\ t1 # None /\ Len(t0) # Len(t1)

\* C4: a payload sealed with the CRC-16 of initial value 0x0000 and then hit by
\* one bit flip inside its body is rejected by try_bit_order_and_crc.
C4_ChecksumSensitivity ==
    (pc = "resolved" /\ tag = "xmodem flipped") => result = None

C4_Witness ==
    /\ pc = "resolved" /\ tag = "xmodem flipped"
    /\ Len(body) = MaxBodyLen /\ payload # body \o Trailer(crc16_xmodem(body, POLY, 0))
    /\ result = None

\* C5: try_bit_order_and_crc returns exactly the body of a payload sealed with
\* either initial value, and no result for an input of fewer than three bytes.
C5_ResolverAccepts ==
    pc = "resolved" =>
        /\ tag \in {"xmodem", "ccitt"} =>
              result = body /\ result = SubSeq(payload, 1, Len(payload) - 2)
        /\ tag = "short" => Len(payload) < 3 /\ result = None

C5_Witness == pc = "resolved" /\ tag = "ccitt" /\ result = body /\ Len(body) >= 1

BestOf(f, t) ==
    IF Texted(f) = {} THEN t = None
    ELSE \E k \in Texted(f) :
            /\ t = seen[k].text
            /\ \A m \in Texted(f) :
                  /\ Len(seen[m].text) <= Len(t)
                  /\ Len(seen[m].text) = Len(t) => k <= m

\* C7: the text returned is as long as any text decoded from a validated
\* candidate; per polarity the longest, earliest text is kept; of two kept
\* texts of equal length the non-flipped polarity's is returned.
C7_ResultSelection ==
    Decoded =>
        /\ BestOf(FALSE, t0) /\ BestOf(TRUE, t1)
        /\ result = NoValidFrame <=> (t0 = None /\ t1 = None)
        /\ result # NoValidFrame =>
              /\ result \in {t0, t1} \ {None}
              /\ \A k \in Texted(FALSE) \cup Texted(TRUE) :
                    Len(seen[k].text) <= Len(result)
              /\ (t0 # None /\ t1 # None /\ Len(t0) = Len(t1)) => result = t0

\* the two polarities kept different texts of one length
C7_Witness ==
    /\ Done /\ t0 # None /\ t1 # None
    /\ Len(t0) = Len(t1) /\ t0 # t1 /\ result = t0

\* the 0 bits that end a run of at least 8 ones
FrameCandidates(bs) ==
    {p \in 0..(Len(bs) - 1) :
        /\ At(bs, p) = 0
        /\ p >= PREAMBLE_MIN
        /\ \A j \in (p - PREAMBLE_MIN)..(p - 1) : At(bs, j) = 1}

\* starts lists, in increasing order, the candidates at least gap positions
\* after the candidate kept before them
LocatedWithGap(gap) ==
    LET kept == {starts[k] : k \in 1..Len(starts)}
    IN  /\ \A k \in 1..(Len(starts) - 1) : starts[k] < starts[k + 1]
        /\ kept \subseteq FrameCandidates(bits)
        /\ \A p \in FrameCandidates(bits) :
              p \in kept <=> \A q \in kept : q < p => p - q >= gap

\* C8 (as claimed): a candidate closer than 50 positions to the candidate kept
\* before it is dropped, one 50 or more positions after it is kept.
C8_FrameLocator == pc = "framed" => LocatedWithGap(DEDUP_GAP)

\* C8 (amended): a candidate 50 or fewer positions after the candidate kept
\* before it is dropped, one 51 or more positions after it is kept.
C8_FrameLocatorAmended == pc = "framed" => LocatedWithGap(DEDUP_GAP + 1)

\* a candidate exactly 50 positions after a kept one, dropped
C8_Witness ==
    /\ pc = "framed"
    /\ \E p \in FrameCandidates(bits), k \in 1..Len(starts) :
          /\ p - starts[k] = DEDUP_GAP
          /\ \A m \in 1..Len(starts) : starts[m] # p

\* where main puts the start bit of each repetition's first byte
FrameStarts(t) ==
    [r \in 1..REPEAT |->
        PREAMBLE_ONES + (r - 1) * Len(FrameBits(EncPayload(WithNewline(t))))]

\* the encoded stream, read with the right polarity, has just been searched
Located == tag = "encoder" /\ pc = "cand" /\ bits = StreamBits(text)

\* no byte from the sixth on, the last one apart, ends in seven 1 bits
NoInnerPreamble(bytes) ==
    \A k \in 6..(Len(bytes) - 1) : bytes[k] \notin {127, 255}

\* C9 (as claimed): whatever the payload bytes, find_frames returns exactly the
\* start of each repetition's first byte.
C9_OneCandidatePerFrame == Located => starts = FrameStarts(text)

\* C9 (amended): find_frames returns exactly the start of each repetition's
\* first byte provided no byte of the payload and trailer from the sixth on,
\* other than the last, is 0x7F or 0xFF.
C9_OneCandidatePerFrameAmended ==
    (Located /\ NoInnerPreamble(EncPayload(WithNewline(text))))
    => starts = FrameStarts(text)

\* a 0x7F among the first five bytes: its run of ones is within 50 positions
C9_Witness ==
    /\ Located /\ NoInnerPreamble(EncPayload(WithNewline(text)))
    /\ \E k \in 1..5 : EncPayload(WithNewline(text))[k] = 127
    /\ Len(starts) = REPEAT

\* group j (from 0) after the start position lies inside the bits and is framed
GoodGroup(j) ==
    /\ starts[1] + 10 * j + 10 <= Len(bits)
    /\ At(bits, starts[1] + 10 * j) = 0
    /\ At(bits, starts[1] + 10 * j + 9) = 1

\* the number of leading well-framed groups, at most the cap
GoodGroups ==
    CHOOSE k \in 0..Min(cap, Len(bits)) :
        /\ \A j \in 0..(k - 1) : GoodGroup(j)
        /\ k = cap \/ ~GoodGroup(k)

\* the 8 data bits of group j, most significant first
GroupValue(j) ==
    LET d(m) == At(bits, starts[1] + 10 * j + m)
    IN  128 * d(1) + 64 * d(2) + 32 * d(3) + 16 * d(4)
        + 8 * d(5) + 4 * d(6) + 2 * d(7) + d(8)

\* C10: bits_to_bytes_uart returns the values of the leading well-framed
\* groups, as many as the cap allows, and the position after the last of them.
C10_UartParser ==
    pc = "parsed" =>
        /\ Len(out) = GoodGroups
        /\ i = starts[1] + 10 * GoodGroups
        /\ \A j \in 0..(GoodGroups - 1) : out[j + 1] = GroupValue(j)

\* the parse stopped at an ill-framed group with bits left after it
C10_Witness ==
    /\ pc = "parsed" /\ Len(out) = 1 /\ cap > 1
    /\ ~GoodGroup(1) /\ GoodGroup(2)

=============================================================================
